---------------------------- MODULE Spec2Model ----------------------------
(***************************************************************************)
(* A model of emoji-mixer (index.js): toUnicode, checkSupported,           *)
(* getEmojiCombo, googleRequestUrl, googleRequestUrlEmojiPart and          *)
(* getEmojiMixUrl, over the static data supportedEmojis and                *)
(* emojiCompatibilityData.                                                 *)
(*                                                                         *)
(* Strings are sequences of code points (<<97, 45, 98>> is "a-b"), so that *)
(* toLowerCase, startsWith, codePointAt, toString(16), split and join are  *)
(* computed as the JavaScript computes them.                               *)
(***************************************************************************)
EXTENDS Integers, Sequences, FiniteSets

VARIABLES
    supportedEmojis,          \* data.js: ordered array of identifiers
    emojiCompatibilityData,   \* data.js: identifier -> array of records
    sortTies,                 \* how the engine's Array.prototype.sort treats the comparator's ties
    pc,                       \* "idle": no call in progress; "returned": a call has completed
    call,                     \* the exported function last called and its arguments
    result                    \* what that call returned or threw

vars == <<supportedEmojis, emojiCompatibilityData, sortTies, pc, call, result>>

---------------------------------------------------------------------------
(* Bounds of the model *)

\* longest supportedEmojis array drawn at start-up
MaxSupported == 2

\* longest list of combination records drawn at start-up
MaxRecords == 2

---------------------------------------------------------------------------
(* Characters and string literals of the source *)

Hyphen == 45

baseUrl == <<104, 116, 116, 112, 115, 58, 47, 47, 119, 119, 119, 46, 103, 115, 116, 97, 116, 105, 99, 46, 99, 111, 109, 47, 97, 110, 100, 114, 111, 105, 100, 47, 107, 101, 121, 98, 111, 97, 114, 100, 47, 101, 109, 111, 106, 105, 107, 105, 116, 99, 104, 101, 110>>

\* "undefined", as a template literal renders the value undefined
UndefinedText == <<117, 110, 100, 101, 102, 105, 110, 101, 100>>

\* "-fe0f"
Fe0fSuffix == <<45, 102, 101, 48, 102>>

\* the offset added to the first code point of an outdated input
OldToNewOffset == 204

\* ", "
CommaSpace == <<44, 32>>

\* "u", "/", "_", ".png"
LetterU == <<117>>
Slash == <<47>>
Underscore == <<95>>
DotPng == <<46, 112, 110, 103>>

---------------------------------------------------------------------------
(* The universe the static data and the inputs are drawn from *)

\* "a-b", "a-b-c", "26c8-fe0f" (U+26C8 with its variation selector) and
\* "2794-fe0f" (what oldToNew makes of U+26C8)
IdAB == <<97, 45, 98>>
IdABC == <<97, 45, 98, 45, 99>>
Id26c8 == <<50, 54, 99, 56, 45, 102, 101, 48, 102>>
Id2794 == <<50, 55, 57, 52, 45, 102, 101, 48, 102>>

IdUniverse == {IdAB, IdABC, Id26c8, Id2794}

\* the code points the emoji-regex package recognises, among those used here
EmojiCodePoints == {9928}

\* "a", "a-b", "A-B", "a-b-c", the emoji U+26C8, and "z"
Inputs == {<<97>>, IdAB, <<65, 45, 66>>, IdABC, <<9928>>, <<122>>}

\* "20230301", "20240101"
Dates == {<<50, 48, 50, 51, 48, 51, 48, 49>>, <<50, 48, 50, 52, 48, 49, 48, 49>>}

\* the identifiers that combination records pair
PairIds == {IdAB, Id26c8}

RecordPool ==
    { r \in [leftEmoji : PairIds, rightEmoji : PairIds, date : Dates] :
        r.leftEmoji # r.rightEmoji }

NoRecord == [leftEmoji |-> <<>>, rightEmoji |-> <<>>, date |-> <<>>]

---------------------------------------------------------------------------
(* JavaScript values and completions *)

Undefined == [t |-> "undefined", s |-> <<>>, rec |-> NoRecord, list |-> <<>>]
Null == [t |-> "null", s |-> <<>>, rec |-> NoRecord, list |-> <<>>]
Str(s) == [t |-> "string", s |-> s, rec |-> NoRecord, list |-> <<>>]
Obj(r) == [t |-> "object", s |-> <<>>, rec |-> r, list |-> <<>>]
Arr(l) == [t |-> "array", s |-> <<>>, rec |-> NoRecord, list |-> l]

\* !v for the values that occur: undefined, null and "" are falsy
Falsy(v) == v.t \in {"undefined", "null"} \/ (v.t = "string" /\ v.s = <<>>)

\* `${v}` for undefined or a string
Template(v) == IF v.t = "undefined" THEN UndefinedText ELSE v.s

NoError == [name |-> "none", tag |-> "none", a |-> <<>>, b |-> <<>>, c |-> <<>>]

\* new Error(message): tag names the message's fixed text, a, b and c its
\* interpolated parts in order
Error(tag, a, b, c) == [name |-> "Error", tag |-> tag, a |-> a, b |-> b, c |-> c]

\* the engine's TypeError for reading a property of undefined
TypeError == [name |-> "TypeError", tag |-> "undefined.filter", a |-> <<>>, b |-> <<>>, c |-> <<>>]

Return(v) == [kind |-> "return", val |-> v, err |-> NoError]
Throw(e) == [kind |-> "throw", val |-> Undefined, err |-> e]

---------------------------------------------------------------------------
(* String.prototype and Array.prototype methods, as the source uses them *)

\* [\da-f] under the i flag
IsHexDigit(c) == c \in (48..57) \cup (97..102) \cup (65..70)

\* String.prototype.toLowerCase, on the characters of the universe
LowerChar(c) == IF c \in 65..90 THEN c + 32 ELSE c
toLowerCase(s) == [i \in 1..Len(s) |-> LowerChar(s[i])]

\* String.prototype.startsWith
startsWith(e, prefix) ==
    /\ Len(prefix) <= Len(e)
    /\ \A i \in 1..Len(prefix) : e[i] = prefix[i]

\* Number.prototype.toString(16) of a positive integer
HexDigit(n) == IF n < 10 THEN 48 + n ELSE 87 + n
RECURSIVE toString16(_)
toString16(n) ==
    IF n < 16 THEN <<HexDigit(n)>>
    ELSE Append(toString16(n \div 16), HexDigit(n % 16))

\* String.prototype.codePointAt(0) of a non-empty string
codePointAt0(s) == s[1]

\* Array.prototype.includes
includes(arr, x) == \E i \in 1..Len(arr) : arr[i] = x

\* Array.prototype.join
RECURSIVE join(_, _)
join(parts, sep) ==
    IF Len(parts) = 0 THEN <<>>
    ELSE IF Len(parts) = 1 THEN parts[1]
    ELSE parts[1] \o sep \o join(Tail(parts), sep)

\* String.prototype.split("-")
RECURSIVE SplitFrom(_, _, _)
SplitFrom(s, i, current) ==
    IF i > Len(s) THEN <<current>>
    ELSE IF s[i] = Hyphen THEN <<current>> \o SplitFrom(s, i + 1, <<>>)
    ELSE SplitFrom(s, i + 1, Append(current, s[i]))
split(s) == SplitFrom(s, 1, <<>>)

---------------------------------------------------------------------------
(* toUnicode *)

\* /^(([\da-f])|([\da-f]\-[\da-f]))+$/i: from position i on, s is a run of
\* tokens, each one hex digit or hex digit, hyphen, hex digit
RECURSIVE TokensFrom(_, _)
TokensFrom(s, i) ==
    IF i > Len(s) THEN TRUE
    ELSE \/ IsHexDigit(s[i]) /\ TokensFrom(s, i + 1)
         \/ /\ i + 2 <= Len(s)
            /\ IsHexDigit(s[i]) /\ s[i + 1] = Hyphen /\ IsHexDigit(s[i + 2])
            /\ TokensFrom(s, i + 3)

UnicodeRepresentationTest(input) == Len(input) > 0 /\ TokensFrom(input, 1)

\* emojiRegex().test(input): an unanchored search for an emoji
emojiRegexTest(input) == \E i \in 1..Len(input) : input[i] \in EmojiCodePoints

\* supportedEmojis.find(e => e.startsWith(candidate))
findStartsWith(candidate) ==
    LET hits == { i \in 1..Len(supportedEmojis) : startsWith(supportedEmojis[i], candidate) }
    IN IF hits = {} THEN Undefined
       ELSE Str(supportedEmojis[CHOOSE i \in hits : \A j \in hits : i <= j])

\* hasData answering for any identifier that find gave
hasData_anyFound(v) == v.t = "string"

\* emojiCompatibilityData[key] is truthy: the key is present (an array, even an
\* empty one, is truthy); the key "undefined" is no identifier of the data
hasData(v) == v.t = "string" /\ v.s \in DOMAIN emojiCompatibilityData

\* toUnicode returning undefined when find gives no element
toUnicode_undefinedOnNoMatch(input, oldToNew) ==
    LET first == IF UnicodeRepresentationTest(input) THEN Str(toLowerCase(input))
                 ELSE IF emojiRegexTest(input) THEN Str(toString16(codePointAt0(input)))
                 ELSE Undefined
    IN IF Falsy(first) THEN Return(first)
       ELSE LET candidate == findStartsWith(first.s)
            IN IF candidate.t = "undefined" THEN Return(Undefined)
               ELSE IF ~hasData(candidate)
               THEN IF oldToNew
                    THEN Return(Str(toString16(codePointAt0(input) + OldToNewOffset) \o Fe0fSuffix))
                    ELSE Throw(Error("outdated", Template(candidate), input,
                                     IF candidate.t # "undefined" THEN candidate.s ELSE <<>>))
               ELSE Return(candidate)

toUnicode(input, oldToNew) ==
    LET first == IF UnicodeRepresentationTest(input) THEN Str(toLowerCase(input))
                 ELSE IF emojiRegexTest(input) THEN Str(toString16(codePointAt0(input)))
                 ELSE Undefined
    IN IF Falsy(first) THEN Return(first)
       ELSE LET candidate == findStartsWith(first.s)
            IN IF ~hasData(candidate)
               THEN IF oldToNew
                    THEN Return(Str(toString16(codePointAt0(input) + OldToNewOffset) \o Fe0fSuffix))
                    ELSE Throw(Error("outdated", Template(candidate), input,
                                     IF candidate.t # "undefined" THEN candidate.s ELSE <<>>))
               ELSE Return(candidate)

---------------------------------------------------------------------------
(* checkSupported *)

checkSupported(emoji, oldToNew) ==
    LET u == toUnicode(emoji, oldToNew)
    IN IF u.kind = "throw" THEN u
       ELSE IF Falsy(u.val) THEN Return(Null)
       ELSE IF u.val.s \in DOMAIN emojiCompatibilityData
            THEN Return(Arr(emojiCompatibilityData[u.val.s]))
            ELSE Return(Null)


---------------------------------------------------------------------------
(* googleRequestUrlEmojiPart, googleRequestUrl *)

\* part => `u${part.toLowerCase()}`
UrlPart(part) == LetterU \o toLowerCase(part)

googleRequestUrlEmojiPart(emoji) ==
    LET parts == split(emoji)
    IN join([i \in 1..Len(parts) |-> UrlPart(parts[i])], <<Hyphen>>)

\* googleRequestUrl with the right emoji as the directory and first half of the file name
googleRequestUrl_rightFirst(emojiMixData) ==
    LET leftEmojiUrlPart == googleRequestUrlEmojiPart(emojiMixData.leftEmoji)
        rightEmojiUrlPart == googleRequestUrlEmojiPart(emojiMixData.rightEmoji)
    IN baseUrl \o Slash \o emojiMixData.date \o Slash \o rightEmojiUrlPart
         \o Slash \o rightEmojiUrlPart \o Underscore \o leftEmojiUrlPart \o DotPng

googleRequestUrl(emojiMixData) ==
    LET leftEmojiUrlPart == googleRequestUrlEmojiPart(emojiMixData.leftEmoji)
        rightEmojiUrlPart == googleRequestUrlEmojiPart(emojiMixData.rightEmoji)
    IN baseUrl \o Slash \o emojiMixData.date \o Slash \o leftEmojiUrlPart
         \o Slash \o leftEmojiUrlPart \o Underscore \o rightEmojiUrlPart \o DotPng

---------------------------------------------------------------------------
(* getEmojiCombo *)

\* a > b on strings: the first differing character decides, a proper prefix is smaller
RECURSIVE StringGreater(_, _)
StringGreater(a, b) ==
    IF Len(a) = 0 THEN FALSE
    ELSE IF Len(b) = 0 THEN TRUE
    ELSE IF a[1] # b[1] THEN a[1] > b[1]
    ELSE StringGreater(Tail(a), Tail(b))

\* the comparator (a, b) => a.date > b.date ? -1 : 1, which never answers 0
compareDates(a, b) == IF StringGreater(a.date, b.date) THEN -1 ELSE 1

\* the filter's predicate
matchesPair(emoji, leftEmoji, rightEmoji) ==
    \/ emoji.leftEmoji = leftEmoji /\ emoji.rightEmoji = rightEmoji
    \/ emoji.leftEmoji = rightEmoji /\ emoji.rightEmoji = leftEmoji

\* One insertion step of Array.prototype.sort. The comparator is not a
\* consistent comparison function (it answers 1 for equal dates in both
\* orders), so the order of equal dates is the engine's choice: an engine
\* that asks compare(inserted, placed) keeps the later element behind its
\* equals ("stable"), one that asks compare(placed, inserted) moves it in
\* front of them ("reversing").
goesBefore(x, placed) ==
    IF sortTies = "stable" THEN compareDates(x, placed) < 0
    ELSE compareDates(placed, x) > 0

RECURSIVE insertSorted(_, _)
insertSorted(sorted, x) ==
    IF Len(sorted) = 0 THEN <<x>>
    ELSE IF goesBefore(x, sorted[1]) THEN <<x>> \o sorted
    ELSE <<sorted[1]>> \o insertSorted(Tail(sorted), x)

RECURSIVE sortFrom(_, _, _)
sortFrom(arr, i, sorted) ==
    IF i > Len(arr) THEN sorted
    ELSE sortFrom(arr, i + 1, insertSorted(sorted, arr[i]))

sortByDate(arr) == sortFrom(arr, 1, <<>>)

getEmojiCombo(leftEmoji, rightEmoji) ==
    IF rightEmoji \notin DOMAIN emojiCompatibilityData
    THEN Throw(TypeError)
    ELSE LET matchingEmojis ==
                 sortByDate(SelectSeq(emojiCompatibilityData[rightEmoji],
                                      LAMBDA emoji : matchesPair(emoji, leftEmoji, rightEmoji)))
         IN IF Len(matchingEmojis) > 0 THEN Return(Obj(matchingEmojis[1]))
            ELSE Return(Undefined)

---------------------------------------------------------------------------
(* getEmojiMixUrl *)

\* compatibleWith with the records mapped to their rightEmoji
compatibleWith_rightEmoji(rightEmoji) ==
    LET data == emojiCompatibilityData[rightEmoji]
    IN join([i \in 1..Len(data) |-> data[i].rightEmoji], CommaSpace)

\* emojiCompatibilityData[rightEmoji].map(e => e.leftEmoji).join(", ")
compatibleWith(rightEmoji) ==
    LET data == emojiCompatibilityData[rightEmoji]
    IN join([i \in 1..Len(data) |-> data[i].leftEmoji], CommaSpace)

\* from the call of getEmojiCombo on: both identifiers are supported
mixFromCombo(leftEmoji, rightEmoji, detailedErrors) ==
    LET emojiMixData == getEmojiCombo(leftEmoji, rightEmoji)
    IN IF emojiMixData.kind = "throw" THEN emojiMixData
       ELSE IF emojiMixData.val.t = "undefined"
            THEN IF ~detailedErrors THEN Return(Undefined)
                 ELSE Throw(Error("notCompatible", leftEmoji, rightEmoji,
                                  compatibleWith(rightEmoji)))
       ELSE Return(Str(googleRequestUrl(emojiMixData.val.rec)))

\* from the checks of the two converted arguments on
mixFromUnicode(leftEmoji, rightEmoji, detailedErrors) ==
    IF Falsy(leftEmoji)
    THEN IF ~detailedErrors THEN Return(Undefined)
         ELSE Throw(Error("leftNotValid", Template(leftEmoji), <<>>, <<>>))
    ELSE IF Falsy(rightEmoji)
    THEN IF ~detailedErrors THEN Return(Undefined)
         ELSE Throw(Error("rightNotValid", Template(rightEmoji), <<>>, <<>>))
    ELSE IF ~includes(supportedEmojis, leftEmoji.s)
    THEN IF ~detailedErrors THEN Return(Undefined)
         ELSE Throw(Error("leftNotSupported", leftEmoji.s, <<>>, <<>>))
    ELSE IF ~includes(supportedEmojis, rightEmoji.s)
    THEN IF ~detailedErrors THEN Return(Undefined)
         ELSE Throw(Error("rightNotSupported", rightEmoji.s, <<>>, <<>>))
    ELSE mixFromCombo(leftEmoji.s, rightEmoji.s, detailedErrors)

\* getEmojiMixUrl with the conversions' errors reported only under detailedErrors
getEmojiMixUrl_gated(leftEmoji, rightEmoji, detailedErrors, oldToNew) ==
    LET left == toUnicode(leftEmoji, oldToNew)
        right == toUnicode(rightEmoji, oldToNew)
    IN IF left.kind = "throw" THEN (IF detailedErrors THEN left ELSE Return(Undefined))
       ELSE IF right.kind = "throw" THEN (IF detailedErrors THEN right ELSE Return(Undefined))
       ELSE mixFromUnicode(left.val, right.val, detailedErrors)

getEmojiMixUrl(leftEmoji, rightEmoji, detailedErrors, oldToNew) ==
    LET left == toUnicode(leftEmoji, oldToNew)
    IN IF left.kind = "throw" THEN left
       ELSE LET right == toUnicode(rightEmoji, oldToNew)
            IN IF right.kind = "throw" THEN right
               ELSE mixFromUnicode(left.val, right.val, detailedErrors)


---------------------------------------------------------------------------
(* The static data, as the module finds it when it is loaded *)

\* arrays of at most n distinct identifiers
SupportedArrays(n) ==
    { a \in UNION { [1..k -> IdUniverse] : k \in 0..n } :
        \A i, j \in 1..Len(a) : i # j => a[i] # a[j] }

RecordLists(n) == UNION { [1..k -> RecordPool] : k \in 0..n }

\* "a-b" and "26c8-fe0f", in that order
DefaultSupported == <<IdAB, Id26c8>>

\* The records published under a key: those with the key as their right
\* emoji, or, when the data files a record under both of its emojis, those
\* with the key on either side.
storedUnder(key, records, underBoth) ==
    SelectSeq(records, LAMBDA r : r.rightEmoji = key \/ (underBoth /\ r.leftEmoji = key))

NoCall == [fn |-> "none", leftEmoji |-> <<>>, rightEmoji |-> <<>>, rec |-> NoRecord,
           detailedErrors |-> FALSE, oldToNew |-> FALSE]

\* Either any array of supported identifiers with any set of keys that have
\* no records yet, or the default array with records for its two identifiers.
Init ==
    /\ \E supported \in SupportedArrays(MaxSupported), keys \in SUBSET IdUniverse,
          records \in RecordLists(MaxRecords), underBoth \in BOOLEAN :
          /\ \/ records = <<>> /\ ~underBoth
             \/ supported = DefaultSupported /\ keys = PairIds /\ records # <<>>
          /\ supportedEmojis = supported
          /\ emojiCompatibilityData = [k \in keys |-> storedUnder(k, records, underBoth)]
    /\ sortTies \in {"stable", "reversing"}
    /\ pc = "idle"
    /\ call = NoCall
    /\ result = Return(Undefined)

---------------------------------------------------------------------------
(* The exported functions, each called from outside with arguments of the
   universe *)

\* "A-B" besides the identifiers of the data
UrlIds == IdUniverse \cup {<<65, 45, 66>>}

\* Called with the sort applied to the stored arrays themselves
Called_sortsStored(fn, leftEmoji, rightEmoji, rec, detailedErrors, oldToNew, outcome) ==
    /\ pc = "idle"
    /\ call' = [fn |-> fn, leftEmoji |-> leftEmoji, rightEmoji |-> rightEmoji, rec |-> rec,
                detailedErrors |-> detailedErrors, oldToNew |-> oldToNew]
    /\ result' = outcome
    /\ pc' = "returned"
    /\ emojiCompatibilityData' =
           [k \in DOMAIN emojiCompatibilityData |-> sortByDate(emojiCompatibilityData[k])]
    /\ UNCHANGED <<supportedEmojis, sortTies>>

Called(fn, leftEmoji, rightEmoji, rec, detailedErrors, oldToNew, outcome) ==
    /\ pc = "idle"
    /\ call' = [fn |-> fn, leftEmoji |-> leftEmoji, rightEmoji |-> rightEmoji, rec |-> rec,
                detailedErrors |-> detailedErrors, oldToNew |-> oldToNew]
    /\ result' = outcome
    /\ pc' = "returned"
    /\ UNCHANGED <<supportedEmojis, emojiCompatibilityData, sortTies>>

CallToUnicode ==
    \E input \in Inputs, oldToNew \in BOOLEAN :
        Called("toUnicode", input, <<>>, NoRecord, FALSE, oldToNew,
               toUnicode(input, oldToNew))

CallCheckSupported ==
    \E emoji \in Inputs, oldToNew \in BOOLEAN :
        Called("checkSupported", emoji, <<>>, NoRecord, FALSE, oldToNew,
               checkSupported(emoji, oldToNew))

CallGetEmojiCombo ==
    \E leftEmoji \in IdUniverse, rightEmoji \in IdUniverse :
        Called("getEmojiCombo", leftEmoji, rightEmoji, NoRecord, FALSE, FALSE,
               getEmojiCombo(leftEmoji, rightEmoji))

CallGoogleRequestUrlEmojiPart ==
    \E emoji \in UrlIds :
        Called("googleRequestUrlEmojiPart", emoji, <<>>, NoRecord, FALSE, FALSE,
               Return(Str(googleRequestUrlEmojiPart(emoji))))

CallGoogleRequestUrl ==
    \E emojiMixData \in [leftEmoji : UrlIds, rightEmoji : UrlIds, date : Dates] :
        Called("googleRequestUrl", <<>>, <<>>, emojiMixData, FALSE, FALSE,
               Return(Str(googleRequestUrl(emojiMixData))))

CallGetEmojiMixUrl ==
    \E leftEmoji \in Inputs, rightEmoji \in Inputs,
       detailedErrors \in BOOLEAN, oldToNew \in BOOLEAN :
        Called("getEmojiMixUrl", leftEmoji, rightEmoji, NoRecord, detailedErrors, oldToNew,
               getEmojiMixUrl(leftEmoji, rightEmoji, detailedErrors, oldToNew))

\* the caller takes the outcome and is ready for its next call
Completed ==
    /\ pc = "returned"
    /\ pc' = "idle"
    /\ call' = NoCall
    /\ result' = Return(Undefined)
    /\ UNCHANGED <<supportedEmojis, emojiCompatibilityData, sortTies>>

Next ==
    \/ CallToUnicode
    \/ CallCheckSupported
    \/ CallGetEmojiCombo
    \/ CallGoogleRequestUrlEmojiPart
    \/ CallGoogleRequestUrl
    \/ CallGetEmojiMixUrl
    \/ Completed

Spec == Init /\ [][Next]_vars


---------------------------------------------------------------------------
(* Vocabulary of the properties *)

\* a call of fn has completed and its outcome is in result
Returned(fn) == pc = "returned" /\ call.fn = fn

\* the uppercase form of a string over the characters of the universe
UpperChar(c) == IF c \in 97..122 THEN c - 32 ELSE c
toUpperCase(s) == [i \in 1..Len(s) |-> UpperChar(s[i])]

\* ^[0-9a-f]+(-[0-9a-f]+)*$, case-insensitively
CanonicalPattern(s) ==
    /\ Len(s) > 0
    /\ \A i \in 1..Len(s) : IsHexDigit(s[i]) \/ s[i] = Hyphen
    /\ s[1] # Hyphen /\ s[Len(s)] # Hyphen
    /\ \A i \in 1..(Len(s) - 1) : ~(s[i] = Hyphen /\ s[i + 1] = Hyphen)

\* some element of supportedEmojis has the candidate as a prefix
HasPrefixMatch(candidate) ==
    \E i \in 1..Len(supportedEmojis) : startsWith(supportedEmojis[i], candidate)

\* every record filed under a key has that key as its rightEmoji
RightKeyed ==
    \A k \in DOMAIN emojiCompatibilityData :
        \A i \in 1..Len(emojiCompatibilityData[k]) :
            emojiCompatibilityData[k][i].rightEmoji = k

\* two outcomes of getEmojiCombo with the same content: both undefined, or
\* records of the same unordered pair and date
SameCombination(x, y) ==
    /\ x.kind = "return" /\ y.kind = "return"
    /\ x.val.t = y.val.t
    /\ x.val.t = "object" =>
          /\ x.val.rec.date = y.val.rec.date
          /\ {x.val.rec.leftEmoji, x.val.rec.rightEmoji}
               = {y.val.rec.leftEmoji, y.val.rec.rightEmoji}

---------------------------------------------------------------------------
(* C1: when the conversion of leftEmoji gives undefined, getEmojiMixUrl
   returns undefined (detailedErrors false) or throws the "[leftEmoji]
   argument is not a valid unicode emoji" error (detailedErrors true),
   whatever rightEmoji is. *)
C1_LeftInvalidDecides ==
    (/\ Returned("getEmojiMixUrl")
     /\ toUnicode(call.leftEmoji, call.oldToNew) = Return(Undefined))
    => IF call.detailedErrors
       THEN result.kind = "throw" /\ result.err.tag = "leftNotValid"
       ELSE result = Return(Undefined)

(* C2: on data whose records all carry their key as rightEmoji, and for two
   identifiers that are both keys, getEmojiCombo(a, b) and
   getEmojiCombo(b, a) are both undefined or both a record of the same
   unordered pair and date. *)
C2_Symmetric ==
    (/\ Returned("getEmojiCombo")
     /\ RightKeyed
     /\ call.leftEmoji \in DOMAIN emojiCompatibilityData
     /\ call.rightEmoji \in DOMAIN emojiCompatibilityData)
    => SameCombination(result, getEmojiCombo(call.rightEmoji, call.leftEmoji))

(* C3: getEmojiCombo never throws: it returns a record or undefined, also
   for a rightEmoji that is no key of the data. *)
C3_ComboNeverThrows ==
    Returned("getEmojiCombo")
    => result.kind = "return" /\ result.val.t \in {"object", "undefined"}

(* C4: checkSupported(emoji) with oldToNew false returns null, without
   throwing, for an emoji whose code point in hexadecimal is a prefix of no
   element of supportedEmojis; and whatever checkSupported returns is null
   or the array filed under a key of the data. *)
C4_UnsupportedGivesNull ==
    /\ (/\ Returned("checkSupported")
        /\ ~call.oldToNew
        /\ ~CanonicalPattern(call.leftEmoji)
        /\ emojiRegexTest(call.leftEmoji)
        /\ ~HasPrefixMatch(toString16(codePointAt0(call.leftEmoji))))
       => result = Return(Null)
    /\ (Returned("checkSupported") /\ result.kind = "return")
       => \/ result.val = Null
          \/ \E k \in DOMAIN emojiCompatibilityData :
                result.val = Arr(emojiCompatibilityData[k])

(* C5: with detailedErrors false, if neither conversion throws then
   getEmojiMixUrl does not throw: it returns a URL or undefined. *)
C5_QuietModeNeverThrows ==
    (/\ Returned("getEmojiMixUrl")
     /\ ~call.detailedErrors
     /\ toUnicode(call.leftEmoji, call.oldToNew).kind = "return"
     /\ toUnicode(call.rightEmoji, call.oldToNew).kind = "return")
    => result.kind = "return" /\ result.val.t \in {"string", "undefined"}


(* C6: with oldToNew false, an error thrown by the conversion of leftEmoji,
   or by the conversion of rightEmoji after leftEmoji converted to an
   identifier, is what getEmojiMixUrl throws, for detailedErrors false as
   for true; and with oldToNew true toUnicode throws for no input. *)
C6_ConversionErrorNotGated ==
    /\ Returned("getEmojiMixUrl") /\ ~call.oldToNew
       => LET left == toUnicode(call.leftEmoji, FALSE)
              right == toUnicode(call.rightEmoji, FALSE)
          IN /\ left.kind = "throw" => result = left
             /\ (left.kind = "return" /\ ~Falsy(left.val) /\ right.kind = "throw")
                   => result = right
    /\ Returned("toUnicode") /\ call.oldToNew => result.kind = "return"

\* detailedErrors is false, leftEmoji converted to an identifier, and the
\* error of rightEmoji's conversion came out of getEmojiMixUrl
C6_Witness ==
    /\ Returned("getEmojiMixUrl") /\ ~call.oldToNew /\ ~call.detailedErrors
    /\ toUnicode(call.leftEmoji, FALSE).kind = "return"
    /\ ~Falsy(toUnicode(call.leftEmoji, FALSE).val)
    /\ toUnicode(call.rightEmoji, FALSE).kind = "throw"
    /\ result.kind = "throw" /\ result.err.tag = "outdated"
    /\ result.err.b = call.rightEmoji

(* C7: for an input matching the canonical pattern, toUnicode of its
   uppercase form and of its lowercase form have the same outcome as the
   call itself: the same identifier, both undefined, or both throwing; for
   both values of oldToNew. *)
SameOutcome(x, y) ==
    \/ x.kind = "throw" /\ y.kind = "throw"
    \/ x.kind = "return" /\ y.kind = "return" /\ x.val = y.val

C7_CaseInsensitive ==
    (Returned("toUnicode") /\ CanonicalPattern(call.leftEmoji))
    => /\ SameOutcome(result, toUnicode(toUpperCase(call.leftEmoji), call.oldToNew))
       /\ SameOutcome(result, toUnicode(toLowerCase(call.leftEmoji), call.oldToNew))

(* C8: for an input matching the canonical pattern whose lowercase form is
   an element of supportedEmojis and a key of the data, toUnicode returns
   exactly the lowercase form, for both values of oldToNew and whatever
   precedes it in supportedEmojis. *)
C8_ReturnsLowercase ==
    (/\ Returned("toUnicode")
     /\ CanonicalPattern(call.leftEmoji)
     /\ includes(supportedEmojis, toLowerCase(call.leftEmoji))
     /\ toLowerCase(call.leftEmoji) \in DOMAIN emojiCompatibilityData)
    => result = Return(Str(toLowerCase(call.leftEmoji)))

(* C9: with oldToNew true, for an input (an emoji or an identifier string)
   whose matched element of supportedEmojis is no key of the data, toUnicode
   returns the hexadecimal of c + 204 followed by "-fe0f", c being the code
   point the candidate identifier denotes. *)

\* the value of a hex digit, and of the leading hex group of an identifier
DigitValue(c) == IF c \in 48..57 THEN c - 48 ELSE LowerChar(c) - 87
RECURSIVE HexValue(_, _)
HexValue(s, acc) ==
    IF Len(s) = 0 \/ s[1] = Hyphen THEN acc
    ELSE HexValue(Tail(s), 16 * acc + DigitValue(s[1]))

\* the candidate of an input: its lowercase form if it is an identifier, the
\* hexadecimal of its first code point if it is an emoji
IsCandidateInput(input) == CanonicalPattern(input) \/ emojiRegexTest(input)
CandidateOf(input) ==
    IF CanonicalPattern(input) THEN toLowerCase(input)
    ELSE toString16(codePointAt0(input))

C9_LegacyRemap ==
    (/\ Returned("toUnicode") /\ call.oldToNew
     /\ IsCandidateInput(call.leftEmoji)
     /\ HasPrefixMatch(CandidateOf(call.leftEmoji))
     /\ findStartsWith(CandidateOf(call.leftEmoji)).s \notin DOMAIN emojiCompatibilityData)
    => result = Return(Str(toString16(HexValue(CandidateOf(call.leftEmoji), 0) + 204)
                             \o Fe0fSuffix))

(* C10: when both arguments convert to elements of supportedEmojis and
   getEmojiCombo returns undefined, getEmojiMixUrl returns undefined if
   detailedErrors is false, and otherwise throws an error whose message
   holds the leftEmoji of every record filed under the right identifier, in
   the data's order, joined by ", ". *)

\* the leftEmoji of the records from position i on, each but the first
\* preceded by ", "
RECURSIVE LeftsFrom(_, _)
LeftsFrom(data, i) ==
    IF i > Len(data) THEN <<>>
    ELSE (IF i > 1 THEN CommaSpace ELSE <<>>) \o data[i].leftEmoji \o LeftsFrom(data, i + 1)

NoCombinationCase ==
    /\ Returned("getEmojiMixUrl")
    /\ LET left == toUnicode(call.leftEmoji, call.oldToNew)
           right == toUnicode(call.rightEmoji, call.oldToNew)
       IN /\ left.kind = "return" /\ left.val.t = "string"
          /\ right.kind = "return" /\ right.val.t = "string"
          /\ includes(supportedEmojis, left.val.s)
          /\ includes(supportedEmojis, right.val.s)
          /\ getEmojiCombo(left.val.s, right.val.s) = Return(Undefined)

C10_NoCombination ==
    NoCombinationCase
    => IF call.detailedErrors
       THEN /\ result.kind = "throw"
            /\ result.err.name = "Error" /\ result.err.tag = "notCompatible"
            /\ result.err.c =
                 LeftsFrom(emojiCompatibilityData[toUnicode(call.rightEmoji, call.oldToNew).val.s], 1)
       ELSE result = Return(Undefined)

\* the detailed error lists two records' leftEmoji
C10_Witness ==
    /\ NoCombinationCase /\ call.detailedErrors
    /\ Len(emojiCompatibilityData[toUnicode(call.rightEmoji, call.oldToNew).val.s]) = 2
    /\ result.kind = "throw"
    /\ result.err.c = IdAB \o CommaSpace \o IdAB

\* the quiet case: no combination, and undefined returned
C10_WitnessQuiet ==
    NoCombinationCase /\ ~call.detailedErrors /\ result = Return(Undefined)


(* C11: googleRequestUrl(r) is baseUrl/date/L/L_R.png, L and R being the
   leftEmoji and rightEmoji of r with every hyphen-separated group
   lowercased and prefixed with "u"; and when getEmojiMixUrl succeeds it
   returns exactly that URL of the record getEmojiCombo selected, never null
   or undefined. *)

\* an identifier character by character: "u" in front, "-u" for each hyphen,
\* every other character lowercased
RECURSIVE PrefixedFrom(_, _)
PrefixedFrom(s, i) ==
    IF i > Len(s) THEN <<>>
    ELSE (IF s[i] = Hyphen THEN <<Hyphen>> \o LetterU ELSE <<LowerChar(s[i])>>)
           \o PrefixedFrom(s, i + 1)
ExpectedUrlPart(s) == LetterU \o PrefixedFrom(s, 1)

ExpectedUrl(r) ==
    baseUrl \o Slash \o r.date \o Slash \o ExpectedUrlPart(r.leftEmoji) \o Slash
      \o ExpectedUrlPart(r.leftEmoji) \o Underscore \o ExpectedUrlPart(r.rightEmoji) \o DotPng

\* getEmojiMixUrl came as far as a record: both arguments converted to
\* supported identifiers and getEmojiCombo returned a record
MixSucceeds ==
    /\ Returned("getEmojiMixUrl")
    /\ LET left == toUnicode(call.leftEmoji, call.oldToNew)
           right == toUnicode(call.rightEmoji, call.oldToNew)
       IN /\ left.kind = "return" /\ left.val.t = "string"
          /\ right.kind = "return" /\ right.val.t = "string"
          /\ includes(supportedEmojis, left.val.s)
          /\ includes(supportedEmojis, right.val.s)
          /\ right.val.s \in DOMAIN emojiCompatibilityData
          /\ getEmojiCombo(left.val.s, right.val.s).val.t = "object"

SelectedRecord ==
    getEmojiCombo(toUnicode(call.leftEmoji, call.oldToNew).val.s,
                  toUnicode(call.rightEmoji, call.oldToNew).val.s).val.rec

C11_UrlFormat ==
    /\ Returned("googleRequestUrlEmojiPart")
       => result = Return(Str(ExpectedUrlPart(call.leftEmoji)))
    /\ Returned("googleRequestUrl") => result = Return(Str(ExpectedUrl(call.rec)))
    /\ MixSucceeds => result = Return(Str(ExpectedUrl(SelectedRecord)))
    /\ (Returned("getEmojiMixUrl") /\ result.kind = "return")
       => result.val.t \in {"string", "undefined"}

\* getEmojiMixUrl("a-b", U+26C8) returned the URL of a record of 2024
C11_Witness ==
    /\ MixSucceeds
    /\ SelectedRecord = [leftEmoji |-> IdAB, rightEmoji |-> Id26c8,
                         date |-> <<50, 48, 50, 52, 48, 49, 48, 49>>]
    /\ result.val.t = "string"
    /\ result.val.s = ExpectedUrl(SelectedRecord)

\* googleRequestUrl lowercased an uppercase identifier
C11_WitnessUppercase ==
    /\ Returned("googleRequestUrl")
    /\ call.rec.leftEmoji = <<65, 45, 66>> /\ call.rec.rightEmoji = Id26c8
    /\ result.val.s = ExpectedUrl([call.rec EXCEPT !.leftEmoji = IdAB])

(* C12: no operation writes the static data: every step, of a call that
   throws included, leaves emojiCompatibilityData (with the order of its
   records) and the array supportedEmojis as they were, and the outcome of a
   getEmojiMixUrl call is the one its arguments have on that unchanged data,
   so the same call has the same outcome at every point. *)
DataUnchanged ==
    /\ supportedEmojis' = supportedEmojis
    /\ emojiCompatibilityData' = emojiCompatibilityData

OutcomeFromData ==
    (pc' = "returned" /\ call'.fn = "getEmojiMixUrl")
    => LET made == call'
       IN result' = getEmojiMixUrl(made.leftEmoji, made.rightEmoji,
                                   made.detailedErrors, made.oldToNew)

C12_DataNeverWritten == [][DataUnchanged /\ OutcomeFromData]_vars

\* getEmojiMixUrl sorted a list whose older record is stored before the
\* newer one, returned the newer one's URL, and the list is as it was
C12_Witness ==
    /\ MixSucceeds
    /\ LET data == emojiCompatibilityData[toUnicode(call.rightEmoji, call.oldToNew).val.s]
       IN /\ Len(data) = 2
          /\ StringGreater(data[2].date, data[1].date)
          /\ SelectedRecord = data[2]

\* a call that threw, on the same kind of data
C12_WitnessThrow ==
    /\ Returned("getEmojiMixUrl") /\ result.kind = "throw"
    /\ \E k \in DOMAIN emojiCompatibilityData :
          LET data == emojiCompatibilityData[k]
          IN Len(data) = 2 /\ StringGreater(data[2].date, data[1].date)

(* C13: for every input from which a candidate was derived (a string of the
   identifier pattern, or a single emoji) such that no element of
   supportedEmojis has the candidate as a prefix, toUnicode returns
   undefined, with no error and no remapped value, whatever oldToNew is. *)
C13_NoMatchGivesAbsent ==
    (/\ Returned("toUnicode")
     /\ IsCandidateInput(call.leftEmoji)
     /\ ~HasPrefixMatch(CandidateOf(call.leftEmoji)))
    => result = Return(Undefined)

\* a group of one digit between two hyphens
OneDigitInterior(s) ==
    \E i \in 1..(Len(s) - 2) : s[i] = Hyphen /\ s[i + 2] = Hyphen

\* the inputs from which the code derives a candidate
DerivesCandidate(input) ==
    \/ CanonicalPattern(input) /\ ~OneDigitInterior(input)
    \/ ~CanonicalPattern(input) /\ emojiRegexTest(input)

(* C13, as the code has it: for every input from which a candidate is
   derived (an identifier string with no one-digit group between two
   hyphens, or a single emoji) such that no element of supportedEmojis has
   the candidate as a prefix, toUnicode never returns undefined: with
   oldToNew false it throws the outdated error naming "undefined" and the
   input, without the link; with oldToNew true it returns the hexadecimal of
   the input's first code point plus 204, followed by "-fe0f". An identifier
   string with a one-digit group between two hyphens gives undefined. *)
C13_NoMatchThrowsOrRemaps ==
    /\ (/\ Returned("toUnicode")
        /\ DerivesCandidate(call.leftEmoji)
        /\ ~HasPrefixMatch(CandidateOf(call.leftEmoji)))
       => IF call.oldToNew
          THEN result = Return(Str(toString16(call.leftEmoji[1] + 204) \o Fe0fSuffix))
          ELSE /\ result.kind = "throw"
               /\ result.err.name = "Error" /\ result.err.tag = "outdated"
               /\ result.err.a = UndefinedText
               /\ result.err.b = call.leftEmoji
               /\ result.err.c = <<>>
    /\ (/\ Returned("toUnicode")
        /\ CanonicalPattern(call.leftEmoji) /\ OneDigitInterior(call.leftEmoji))
       => result = Return(Undefined)

\* toUnicode(U+26C8) threw with no element of supportedEmojis starting "26c8"
C13_Witness ==
    /\ Returned("toUnicode") /\ ~call.oldToNew
    /\ call.leftEmoji = <<9928>>
    /\ ~HasPrefixMatch(CandidateOf(call.leftEmoji))
    /\ result.kind = "throw"

\* toUnicode("a", true) returned "12d-fe0f" with no element starting "a"
C13_WitnessRemap ==
    /\ Returned("toUnicode") /\ call.oldToNew
    /\ call.leftEmoji = <<97>>
    /\ ~HasPrefixMatch(<<97>>)
    /\ result = Return(Str(<<49, 50, 100>> \o Fe0fSuffix))

(* C14: for a rightEmoji that is a key of the data, getEmojiCombo returns
   undefined exactly when no record filed under the key is of the pair in
   either orientation; otherwise it returns a record of the pair whose date
   is the greatest, as strings, of all records of the pair, and of several
   records with that greatest date the one stored first. *)
\* the positions, in the list filed under rightEmoji, of the records of the pair
PairPositions(leftEmoji, rightEmoji) ==
    LET data == emojiCompatibilityData[rightEmoji]
    IN { i \in 1..Len(data) : {data[i].leftEmoji, data[i].rightEmoji} = {leftEmoji, rightEmoji} }

\* the first position, among those given, of a record with the greatest date
FirstNewest(data, positions) ==
    CHOOSE i \in positions :
        \A j \in positions :
            /\ ~StringGreater(data[j].date, data[i].date)
            /\ data[j].date = data[i].date => i <= j

C14_Selection ==
    (Returned("getEmojiCombo") /\ call.rightEmoji \in DOMAIN emojiCompatibilityData)
    => LET data == emojiCompatibilityData[call.rightEmoji]
           positions == PairPositions(call.leftEmoji, call.rightEmoji)
       IN IF positions = {} THEN result = Return(Undefined)
          ELSE result = Return(Obj(data[FirstNewest(data, positions)]))

(* C15: for every input made of hexadecimal digits and hyphens, toUnicode
   takes the branch "already a Unicode representation", with the lowercase
   input as candidate, exactly when the input is of the pattern
   ^[0-9a-f]+(-[0-9a-f]+)*$ without regard to case, identifiers with a
   one-digit group between two hyphens such as "a-b-c" included. *)
OverHexAndHyphen(s) == \A i \in 1..Len(s) : IsHexDigit(s[i]) \/ s[i] = Hyphen

C15_IdentifierBranch ==
    (Returned("toUnicode") /\ OverHexAndHyphen(call.leftEmoji))
    => /\ UnicodeRepresentationTest(call.leftEmoji) <=> CanonicalPattern(call.leftEmoji)
       /\ (/\ CanonicalPattern(call.leftEmoji)
           /\ HasPrefixMatch(toLowerCase(call.leftEmoji))
           /\ hasData(findStartsWith(toLowerCase(call.leftEmoji))))
          => result = Return(findStartsWith(toLowerCase(call.leftEmoji)))

(* C16: with oldToNew false, every value other than undefined that toUnicode
   returns is an element of supportedEmojis and a key of
   emojiCompatibilityData; so getEmojiMixUrl with oldToNew false never fails
   its two "is not a supported emoji" checks and calls getEmojiCombo only
   with a rightEmoji that is a key: it throws neither of the two errors nor
   a TypeError, and when both arguments convert, its outcome is the one the
   combination gives. *)
C16_RemapOffGivesSupported ==
    /\ (/\ Returned("toUnicode") /\ ~call.oldToNew
        /\ result.kind = "return" /\ result.val.t # "undefined")
       => /\ result.val.t = "string"
          /\ includes(supportedEmojis, result.val.s)
          /\ result.val.s \in DOMAIN emojiCompatibilityData
    /\ (Returned("getEmojiMixUrl") /\ ~call.oldToNew)
       => /\ result.kind = "throw"
             => /\ result.err.name = "Error"
                /\ result.err.tag \notin {"leftNotSupported", "rightNotSupported"}
          /\ LET left == toUnicode(call.leftEmoji, FALSE)
                 right == toUnicode(call.rightEmoji, FALSE)
             IN (/\ left.kind = "return" /\ left.val.t = "string"
                 /\ right.kind = "return" /\ right.val.t = "string")
                => /\ right.val.s \in DOMAIN emojiCompatibilityData
                   /\ LET combo == getEmojiCombo(left.val.s, right.val.s)
                      IN /\ combo.kind = "return"
                         /\ combo.val.t = "object"
                            => result = Return(Str(ExpectedUrl(combo.val.rec)))
                         /\ combo.val.t = "undefined"
                            => IF call.detailedErrors
                               THEN result.kind = "throw" /\ result.err.tag = "notCompatible"
                               ELSE result = Return(Undefined)

\* toUnicode("a") returned "a-b", the first element starting with "a", on
\* data where another element of supportedEmojis is no key
C16_Witness ==
    /\ Returned("toUnicode") /\ ~call.oldToNew
    /\ call.leftEmoji = <<97>>
    /\ result = Return(Str(IdAB))
    /\ \E i \in 1..Len(supportedEmojis) :
          supportedEmojis[i] \notin DOMAIN emojiCompatibilityData

\* getEmojiMixUrl with oldToNew false went past both checks to getEmojiCombo
C16_WitnessMix ==
    /\ Returned("getEmojiMixUrl") /\ ~call.oldToNew /\ call.detailedErrors
    /\ result.kind = "throw" /\ result.err.tag = "notCompatible"

=============================================================================
